---- MODULE Spec2Model ----
(***************************************************************************)
(* FraudGuard: transaction ledger, fraud-scoring decision and review       *)
(* workflow of src/app.py, with the analysis engine of                     *)
(* src/fraud_service.py.                                                   *)
(*                                                                         *)
(* Every HTTP request runs in its own SQLAlchemy session: rows are read    *)
(* by SELECT into the session (a private snapshot), changed in Python,     *)
(* and written back as absolute column values by the UPDATE/INSERT of      *)
(* db.session.commit().  A handler reads its rows when the request         *)
(* arrives; requests of different clients interleave between that read,    *)
(* the external analysis call and the commit.  A commit is one database    *)
(* transaction.                                                            *)
(*                                                                         *)
(* Money is counted in whole currency units, scores in hundredths          *)
(* (0.7 is 70, 0.3 x balance is 3 x balance / 10).                         *)
(***************************************************************************)
EXTENDS Integers, Sequences, FiniteSets, TLC

\* ------------------------------------------------------------------ bounds
\* number of requests the server admits in a run
MaxRequests == 3

\* ------------------------------------------------------------- environment
\* registered accounts (register() credits each with INITIAL_BALANCE)
Users == {"alice", "bob"}
\* recipient_username values a client may submit
Usernames == Users \cup {"nobody"}
\* amounts a client may submit
Amounts == {0, 3000, 6000}
\* request handlers running at the same time
Slots == {1, 2}

INITIAL_BALANCE == 10000
\* 0.3, as the fraction 3/10
LARGE_TRANSACTION_THRESHOLD == <<3, 10>>

\* a nullable column or an unset local: <<>> is None, <<x>> is x
None == <<>>
Some(x) == <<x>>
Val(o) == o[1]

\* dict.get(key, default)
Get(d, k, default) == IF k \in DOMAIN d THEN d[k] ELSE default

\* datetime.utcnow(): some non-null timestamp
utcnow == Some("utcnow")

\* ---------------------------------------------------- fraud analysis engine
\* what self.model.generate_content(prompt) can do: raise (timeout, network,
\* credentials), or return text; the text holds no braces, braces that are
\* not JSON, or a JSON object data
NoData == [x \in {} |-> 0]
Raises == [kind |-> "raise", data |-> NoData]
NoJson == [kind |-> "nojson", data |-> NoData]
BadJson == [kind |-> "badjson", data |-> NoData]
Json(d) == [kind |-> "json", data |-> d]
\* the JSON object data followed by further text, tail
JsonThen(d, tail) == [kind |-> "json", data |-> d, tail |-> tail]
\* the characters of the text after the object
TrailingText(response) == Get(response, "tail", <<>>)

Responses ==
    { Raises,
      Json([is_fraud |-> TRUE, confidence_score |-> 30,
            explanation |-> "ai", fraud_indicators |-> <<"amount">>,
            severity |-> "medium", recommendation |-> "block"]),
      Json([is_fraud |-> FALSE, confidence_score |-> 70,
            explanation |-> "ai", fraud_indicators |-> <<>>,
            severity |-> "medium", recommendation |-> "approve"]),
      Json([is_fraud |-> FALSE, confidence_score |-> 71,
            explanation |-> "ai"]) }

\* re.search(r'\{.*\}', response_text, re.DOTALL): greedy, the match runs from
\* the first "{" to the last "}" of the text; it is the object alone when no
\* "}" follows the object
MatchIsObject(response) ==
    ~\E i \in DOMAIN TrailingText(response) : TrailingText(response)[i] = "}"

\* json.loads raises JSONDecodeError (extra data) on a match wider than the
\* object
parse_gemini_response(response) ==
    IF response.kind = "json" /\ MatchIsObject(response)
    THEN [is_fraud |-> Get(response.data, "is_fraud", FALSE),
          score |-> Get(response.data, "confidence_score", 0),
          reason |-> Get(response.data, "explanation", "No explanation provided"),
          patterns |-> Get(response.data, "fraud_indicators", <<>>),
          severity |-> Get(response.data, "severity", "low"),
          recommendation |-> Get(response.data, "recommendation", "review")]
    ELSE IF response.kind = "nojson"
    THEN [is_fraud |-> FALSE, score |-> 0,
          reason |-> "Could not parse response", patterns |-> <<>>]
    ELSE [is_fraud |-> FALSE, score |-> 0,
          reason |-> "Invalid JSON response", patterns |-> <<>>]

\* self.model exists only when use_api: without it the attribute access
\* raises inside the try, like a failed call
analyze_transaction(api, response) ==
    IF api /\ response.kind # "raise"
    THEN parse_gemini_response(response)
    ELSE [is_fraud |-> FALSE, score |-> 0,
          reason |-> "Error analyzing transaction", patterns |-> <<>>,
          recommendation |-> "review"]

\* ------------------------------------------------------ rule-based fallback
\* text as the sequence of its characters
fraud_keywords ==
    << <<"u", "r", "g", "e", "n", "t">>,
       <<"v", "e", "r", "i", "f", "y">>,
       <<"s", "u", "s", "p", "e", "n", "d", "e", "d">>,
       <<"c", "l", "i", "c", "k", " ", "h", "e", "r", "e">>,
       <<"c", "o", "n", "f", "i", "r", "m">>,
       <<"a", "c", "c", "o", "u", "n", "t">>,
       <<"p", "a", "s", "s", "w", "o", "r", "d">>,
       <<"s", "o", "c", "i", "a", "l", " ", "s", "e", "c", "u", "r", "i", "t", "y">>,
       <<"s", "s", "n">>,
       <<"p", "r", "i", "z", "e">>,
       <<"w", "i", "n", "n", "e", "r">>,
       <<"l", "o", "t", "t", "e", "r", "y">>,
       <<"t", "a", "x">>,
       <<"i", "r", "s">>,
       <<"r", "e", "f", "u", "n", "d">>,
       <<"s", "u", "s", "p", "e", "n", "d", "e", "d">>,
       <<"u", "n", "u", "s", "u", "a", "l", " ", "a", "c", "t", "i", "v", "i", "t", "y">>,
       <<"v", "e", "r", "i", "f", "y", " ", "i", "d", "e", "n", "t", "i", "t", "y">>,
       <<"c", "l", "i", "c", "k", " ", "i", "m", "m", "e", "d", "i", "a", "t", "e", "l", "y">>,
       <<"a", "c", "t", " ", "n", "o", "w">>,
       <<"l", "i", "m", "i", "t", "e", "d", " ", "t", "i", "m", "e">>,
       <<"c", "o", "n", "f", "i", "r", "m", " ", "y", "o", "u", "r">>,
       <<"u", "p", "d", "a", "t", "e", " ", "y", "o", "u", "r">> >>

\* str.lower()
LowerCase ==
    ("A" :> "a") @@ ("B" :> "b") @@ ("C" :> "c") @@ ("D" :> "d") @@ ("E" :> "e") @@ ("F" :> "f") @@
    ("G" :> "g") @@ ("H" :> "h") @@ ("I" :> "i") @@ ("J" :> "j") @@ ("K" :> "k") @@ ("L" :> "l") @@
    ("M" :> "m") @@ ("N" :> "n") @@ ("O" :> "o") @@ ("P" :> "p") @@ ("Q" :> "q") @@ ("R" :> "r") @@
    ("S" :> "s") @@ ("T" :> "t") @@ ("U" :> "u") @@ ("V" :> "v") @@ ("W" :> "w") @@ ("X" :> "x") @@
    ("Y" :> "y") @@ ("Z" :> "z")

Lower(text) ==
    [i \in 1..Len(text) |->
        IF text[i] \in DOMAIN LowerCase THEN LowerCase[text[i]] ELSE text[i]]

\* kw in content_lower
IsSubstring(kw, text) ==
    \E i \in 1..(Len(text) - Len(kw) + 1) :
        \A j \in 1..Len(kw) : text[i + j - 1] = kw[j]

Min(a, b) == IF a < b THEN a ELSE b

\* the keywords of the list found in the lower-cased text, in list order
detected_in(content_lower) ==
    SelectSeq(fraud_keywords, LAMBDA kw : IsSubstring(kw, content_lower))

\* the verdict for the keywords found
fallback_verdict(detected_keywords) ==
    LET fraud_score == Min(Len(detected_keywords) * 15, 95)
        is_fraud == fraud_score > 40 IN
    [is_fraud |-> is_fraud,
     score |-> fraud_score,
     reason |-> IF is_fraud
                THEN "Detected " \o ToString(Len(detected_keywords))
                                 \o " fraud indicators"
                ELSE "No significant fraud indicators detected",
     patterns |-> SubSeq(detected_keywords, 1, Min(5, Len(detected_keywords))),
     severity |-> IF fraud_score > 70 THEN "high"
                  ELSE IF fraud_score > 40 THEN "medium" ELSE "low"]

\* texts a client may submit for analysis, or as a transfer's description
TextPlain == <<"L", "u", "n", "c", "h", " ", "a", "t", " ", "n", "o", "o", "n">>
TextTwo == <<"U", "R", "G", "E", "N", "T", ":", " ", "v", "e", "r", "i", "f", "y">>
TextThree == <<"U", "r", "g", "e", "n", "t", ":", " ", "v", "e", "r", "i", "f", "y", " ", "a", "c", "c", "o", "u", "n", "t">>
TextFour == <<"a", "c", "t", " ", "n", "o", "w", ",", " ", "w", "i", "n", "n", "e", "r", "!", " ", "c", "o", "n", "f", "i", "r", "m", " ", "p", "a", "s", "s", "w", "o", "r", "d">>
TextSeven == <<"u", "r", "g", "e", "n", "t", " ", "s", "s", "n", " ", "t", "a", "x", " ", "i", "r", "s", " ", "r", "e", "f", "u", "n", "d", " ", "p", "r", "i", "z", "e", " ", "l", "o", "t", "t", "e", "r", "y">>

TextSuspended == <<"A", "c", "c", "o", "u", "n", "t", " ", "s", "u", "s", "p", "e", "n", "d", "e", "d">>

Contents ==
    {<<>>, TextPlain, TextTwo, TextThree, TextFour, TextSeven, TextSuspended}

\* the verdict of each text of Contents
fallback_table ==
    [content \in Contents |-> fallback_verdict(detected_in(Lower(content)))]

\* a classifier whose score depends on the kind of text
fallback_analysis_by_type(content, data_type) ==
    LET content_lower == Lower(content)
        detected_keywords ==
            SelectSeq(fraud_keywords, LAMBDA kw : IsSubstring(kw, content_lower))
        fraud_score == Min(Len(detected_keywords) * 15
                             + (IF data_type = "sms" THEN 15 ELSE 0), 95)
        is_fraud == fraud_score > 40 IN
    [is_fraud |-> is_fraud,
     score |-> fraud_score,
     reason |-> IF is_fraud
                THEN "Detected " \o ToString(Len(detected_keywords))
                                 \o " fraud indicators"
                ELSE "No significant fraud indicators detected",
     patterns |-> SubSeq(detected_keywords, 1, Min(5, Len(detected_keywords))),
     severity |-> IF fraud_score > 70 THEN "high"
                  ELSE IF fraud_score > 40 THEN "medium" ELSE "low"]

\* _fallback_analysis: data_type is not used
fallback_analysis(content, data_type) == fallback_table[content]

\* analyze_email and analyze_sms: the fallback when unconfigured or when the
\* call raises, the parsed response otherwise
analyze_email(api, content, response) ==
    IF ~api \/ response.kind = "raise"
    THEN fallback_analysis(content, "email")
    ELSE parse_gemini_response(response)

analyze_sms(api, content, response) ==
    IF ~api \/ response.kind = "raise"
    THEN fallback_analysis(content, "sms")
    ELSE parse_gemini_response(response)

\* analyze_phone: no use_api test; a failed call gives a fixed verdict
analyze_phone(api, content, response) ==
    IF api /\ response.kind # "raise"
    THEN parse_gemini_response(response)
    ELSE [is_fraud |-> FALSE, score |-> 0,
          reason |-> "Error analyzing phone", patterns |-> <<>>]

\* responses of the collaborator, beyond those of Responses: text without an
\* object, text whose braces are not JSON, an empty object, a partial object,
\* an object followed by a stray "{" or by a second object, a
\* confidence_score outside 0..1
EngineResponses ==
    Responses \cup
    { NoJson, BadJson, Json(NoData),
      Json([is_fraud |-> TRUE]),
      JsonThen([is_fraud |-> TRUE, confidence_score |-> 90,
                explanation |-> "ai"], <<" ", "{">>),
      JsonThen([is_fraud |-> TRUE, confidence_score |-> 90,
                explanation |-> "ai"], <<" ", "{", "}">>),
      Json([is_fraud |-> TRUE, confidence_score |-> 150,
            explanation |-> "ai", fraud_indicators |-> <<>>,
            severity |-> "high"]) }

\* ------------------------------------------------------ checks of the views
\* TransactionForm.validate_on_submit()
FormValid_off(amount, face_verification) == face_verification

FormValid(amount, face_verification) == amount * 100 >= 1 /\ face_verification

SendInsufficient_off(bal, amount) == FALSE

SendInsufficient(bal, amount) == bal < amount

\* amount > current_user.balance * Config.LARGE_TRANSACTION_THRESHOLD
IsLargeTransaction_ge(amount, bal) ==
    amount * LARGE_TRANSACTION_THRESHOLD[2] >= bal * LARGE_TRANSACTION_THRESHOLD[1]

IsLargeTransaction(amount, bal) ==
    amount * LARGE_TRANSACTION_THRESHOLD[2] > bal * LARGE_TRANSACTION_THRESHOLD[1]

ShouldFlag_ge(fraud_result) == fraud_result.is_fraud \/ fraud_result.score >= 70

ShouldFlag(fraud_result) == fraud_result.is_fraud \/ fraud_result.score > 70

ApproveUnauthorized_off(txn, user) == FALSE

ApproveUnauthorized(txn, user) == txn.sender_id # user

ApproveNotFlagged_off(txn) == FALSE

ApproveNotFlagged(txn) == txn.status # "flagged"

ApproveInsufficient_off(bal, amount) == FALSE

ApproveInsufficient(bal, amount) == bal < amount

CancelUnauthorized_off(txn, user) == FALSE

CancelUnauthorized(txn, user) == txn.sender_id # user

\* ---------------------------------------------------------------- TOTP
\* base32 secrets that pyotp.random_base32() may return
Secrets == {"S1", "S2"}

\* pyotp's default interval, in seconds
Interval == 30

\* TOTP.timecode(for_time): the number of the time step
timecode(for_time) == for_time \div Interval

\* TOTP.at(for_time, counter_offset): the code of a secret at a time step.
\* The HMAC and its truncation to 6 digits are taken as injective: two codes
\* are equal only for the same secret and the same step.
TotpAt(secret, for_time, counter_offset) ==
    <<secret, timecode(for_time) + counter_offset>>

\* a 6-character string that is the code of no secret at any step
WrongCode == <<"000000", 0>>

\* the last second of the clock
MaxTime == 150

\* instants at which a code is generated or checked
Times == {t \in 0..MaxTime : t % 15 = 0}

\* a verification that checks the current step only
verify_totp_current_step(secret, token, for_time) ==
    IF secret = None THEN FALSE
    ELSE token = TotpAt(Val(secret), for_time, 0)

\* User.verify_totp: totp.verify(token, valid_window=1)
verify_totp(secret, token, for_time) ==
    IF secret = None THEN FALSE
    ELSE \E i \in -1..1 : token = TotpAt(Val(secret), for_time, i)

\* ------------------------------------------------------------------- state
VARIABLES
    use_api,        \* fraud_service.use_api, fixed at construction
    balance,        \* users.balance column, by user
    transactions,   \* transactions table, row id = index
    moved,          \* history: per row, how many commits moved its amount
    req,            \* per handler: position, inputs and session contents
    admitted,       \* number of requests admitted so far
    eng,            \* the last call of the analysis engine and what it returned
    totp_secret,    \* users.totp_secret column, by user
    two_fa_enabled, \* users.two_fa_enabled column, by user
    tfa,            \* setup_2fa request at each handler
    totp,           \* the last call of verify_totp and what it returned
    login,          \* the last login request and its outcome
    session,        \* users a client holds a login session for
    last_login      \* users.last_login column, by user

vars == <<use_api, balance, transactions, moved, req, admitted, eng,
          totp_secret, two_fa_enabled, tfa, totp, login, session, last_login>>

\* the state of second-factor enrollment
Logins == <<login, session, last_login>>
TwoFactor == <<totp_secret, two_fa_enabled, tfa, totp, Logins>>

Idle ==
    [kind |-> "none", pc |-> "idle", user |-> "nobody",
     recipient_username |-> "nobody", amount |-> 0,
     txn_id |-> 0,
     s_bal |-> None,          \* current_user.balance as loaded
     r_bal |-> None,          \* recipient.balance as loaded
     txn |-> None,            \* transaction row as loaded
     fraud_result |-> None,
     outcome |-> "none"]

InFlight(p) == req[p].pc \notin {"idle", "done"}

\* the server hands the next request to the first handler that is not running
Free(p) ==
    /\ admitted < MaxRequests
    /\ ~InFlight(p)
    /\ \A q \in Slots : q < p => InFlight(q)

\* a request arrives at handler p.  The response of a handler that returned
\* is kept for observation until the next request arrives, so the responses
\* present together are those of requests that ran at the same time.
Arrive(p, r) ==
    [q \in Slots |-> IF q = p THEN r
                     ELSE IF InFlight(q) THEN req[q] ELSE Idle]

\* the handler returns: the session is discarded, the outcome is the response
Finish(r, outcome) ==
    [Idle EXCEPT !.kind = r.kind, !.pc = "done", !.user = r.user,
                 !.amount = r.amount, !.txn_id = r.txn_id, !.s_bal = r.s_bal,
                 !.fraud_result = r.fraud_result, !.outcome = outcome]

\* no call of the engine yet.  first is the first call that the rule-based
\* classifier answered, later the number of calls made after it (up to 2)
NoCall ==
    [op |-> "none", content |-> <<>>, response |-> Raises, result |-> None,
     fraud_score |-> None, flagged |-> FALSE, first |-> None, later |-> 0]

\* no setup_2fa request at a handler
TfaIdle ==
    [pc |-> "idle", user |-> "none", token |-> None, secret |-> None,
     expired |-> FALSE, checked_at |-> 0, outcome |-> "none"]

\* no login request yet
NoLogin ==
    [op |-> "none", user |-> "nobody", password |-> "", token |-> None,
     now |-> 0, outcome |-> "none"]

\* no call of verify_totp yet
NoVerify ==
    [op |-> "none", secret |-> None, key |-> "S1", generated_at |-> 0,
     checked_at |-> 0, result |-> FALSE]

Init ==
    /\ totp_secret = [u \in Users |-> None]
    /\ two_fa_enabled = [u \in Users |-> FALSE]
    /\ tfa = [p \in Slots |-> TfaIdle]
    /\ totp = NoVerify
    /\ login = NoLogin
    /\ session = {}
    /\ last_login = [u \in Users |-> None]
    /\ eng = NoCall
    /\ use_api \in BOOLEAN
    /\ balance = [u \in Users |-> INITIAL_BALANCE]
    /\ transactions = <<>>
    /\ moved = <<>>
    /\ req = [p \in Slots |-> Idle]
    /\ admitted = 0

\* ---------------------------------------------------------------- send_money
\* the request arrives: @login_required loads current_user, the form is
\* validated, the recipient is looked up, self-transfer and sufficiency are
\* checked and the large-transaction decision is taken
SendBegin(p, u, rcpt, amt, face) ==
    LET r == [Idle EXCEPT !.kind = "send", !.user = u,
                          !.recipient_username = rcpt, !.amount = amt,
                          !.s_bal = Some(balance[u])] IN
    /\ Free(p)
    /\ req' = Arrive(p,
         IF ~FormValid(amt, face) THEN Finish(r, "invalid")
         ELSE IF rcpt \notin DOMAIN balance THEN Finish(r, "not_found")
         ELSE IF rcpt = u THEN Finish(r, "self_transfer")
         ELSE IF SendInsufficient(balance[u], amt) THEN Finish(r, "insufficient")
         ELSE [r EXCEPT !.r_bal = Some(balance[rcpt]),
                        !.pc = IF IsLargeTransaction(amt, balance[u])
                               THEN "analyze" ELSE "transfer"])
    /\ admitted' = admitted + 1
    /\ UNCHANGED <<TwoFactor, eng, use_api, balance, transactions, moved>>

\* fraud_service.analyze_transaction(...) returns
SendAnalyze(p, response) ==
    LET r == req[p]
        fraud_result == analyze_transaction(use_api, response) IN
    /\ r.kind = "send" /\ r.pc = "analyze"
    /\ req' = [req EXCEPT ![p] =
                 [r EXCEPT !.fraud_result = Some(fraud_result),
                           !.pc = IF ShouldFlag(fraud_result)
                                  THEN "flag" ELSE "transfer"]]
    /\ UNCHANGED <<TwoFactor, eng, use_api, balance, transactions, moved, admitted>>

\* a row left at the column default of status
NewTransaction_default(r, status, requires_review, completed_at) ==
    [sender_id |-> r.user, receiver_id |-> r.recipient_username,
     amount |-> r.amount, status |-> "pending",
     fraud_score |-> IF r.fraud_result = None THEN None
                     ELSE Some(Val(r.fraud_result).score),
     fraud_reason |-> IF r.fraud_result = None THEN None
                      ELSE Some(Val(r.fraud_result).reason),
     requires_review |-> requires_review,
     face_verified |-> TRUE,
     completed_at |-> completed_at]

\* Transaction(...) of send_money with the status the handler sets before
\* the row is added to the session
NewTransaction(r, status, requires_review, completed_at) ==
    [sender_id |-> r.user, receiver_id |-> r.recipient_username,
     amount |-> r.amount, status |-> status,
     fraud_score |-> IF r.fraud_result = None THEN None
                     ELSE Some(Val(r.fraud_result).score),
     fraud_reason |-> IF r.fraud_result = None THEN None
                      ELSE Some(Val(r.fraud_result).reason),
     requires_review |-> requires_review,
     face_verified |-> TRUE,
     completed_at |-> completed_at]

\* a flagging that also debits and credits
SendFlag_moves(p) ==
    LET r == req[p] IN
    /\ r.kind = "send" /\ r.pc = "flag"
    /\ balance' = [balance EXCEPT
                     ![r.user] = Val(r.s_bal) - r.amount,
                     ![r.recipient_username] = Val(r.r_bal) + r.amount]
    /\ transactions' = Append(transactions,
                              NewTransaction(r, "flagged", TRUE, None))
    /\ moved' = Append(moved, 0)
    /\ req' = [req EXCEPT ![p] =
                 Finish([r EXCEPT !.txn_id = Len(transactions) + 1], "flagged")]
    /\ UNCHANGED <<TwoFactor, eng, use_api, admitted>>

\* flagged: INSERT of the transaction only
SendFlag(p) ==
    LET r == req[p] IN
    /\ r.kind = "send" /\ r.pc = "flag"
    /\ transactions' = Append(transactions,
                              NewTransaction(r, "flagged", TRUE, None))
    /\ moved' = Append(moved, 0)
    /\ req' = [req EXCEPT ![p] =
                 Finish([r EXCEPT !.txn_id = Len(transactions) + 1], "flagged")]
    /\ UNCHANGED <<TwoFactor, eng, use_api, balance, admitted>>

\* a transfer that locks its sender's row on arrival and waits at the commit
\* for the receiver's row, which a transfer in the other direction holds
SendTransfer_waits(p) ==
    LET r == req[p] IN
    /\ r.kind = "send" /\ r.pc = "transfer"
    /\ ~\E q \in Slots \ {p} :
           InFlight(q) /\ req[q].kind = "send" /\ req[q].user = r.recipient_username
    /\ balance' = [balance EXCEPT
                     ![r.user] = Val(r.s_bal) - r.amount,
                     ![r.recipient_username] = Val(r.r_bal) + r.amount]
    /\ transactions' = Append(transactions,
                              NewTransaction(r, "completed", FALSE, utcnow))
    /\ moved' = Append(moved, 1)
    /\ req' = [req EXCEPT ![p] =
                 Finish([r EXCEPT !.txn_id = Len(transactions) + 1], "completed")]
    /\ UNCHANGED <<TwoFactor, eng, use_api, admitted>>

\* not flagged: UPDATE of both balances from the session's values, INSERT
SendTransfer(p) ==
    LET r == req[p] IN
    /\ r.kind = "send" /\ r.pc = "transfer"
    /\ balance' = [balance EXCEPT
                     ![r.user] = Val(r.s_bal) - r.amount,
                     ![r.recipient_username] = Val(r.r_bal) + r.amount]
    /\ transactions' = Append(transactions,
                              NewTransaction(r, "completed", FALSE, utcnow))
    /\ moved' = Append(moved, 1)
    /\ req' = [req EXCEPT ![p] =
                 Finish([r EXCEPT !.txn_id = Len(transactions) + 1], "completed")]
    /\ UNCHANGED <<TwoFactor, eng, use_api, admitted>>

\* ------------------------------------------------------- approve_transaction
\* ids a client may name: the rows of the table and one that does not exist
TxnIds == 1..(Len(transactions) + 1)

\* the request arrives: @login_required loads current_user,
\* Transaction.query.get_or_404, sender, status and sufficiency checks,
\* recipient = User.query.get(transaction.receiver_id)
ApproveBegin(p, u, id) ==
    LET r == [Idle EXCEPT !.kind = "approve", !.user = u, !.txn_id = id,
                          !.s_bal = Some(balance[u])] IN
    /\ Free(p)
    /\ req' = Arrive(p,
         IF id \notin DOMAIN transactions THEN Finish(r, "404")
         ELSE LET txn == transactions[id] IN
              IF ApproveUnauthorized(txn, u) THEN Finish(r, "unauthorized")
              ELSE IF ApproveNotFlagged(txn) THEN Finish(r, "not_flagged")
              ELSE IF ApproveInsufficient(balance[u], txn.amount)
                   THEN Finish(r, "insufficient")
              ELSE [r EXCEPT !.txn = Some(txn), !.amount = txn.amount,
                             !.r_bal = Some(balance[txn.receiver_id]),
                             !.pc = "commit"])
    /\ admitted' = admitted + 1
    /\ UNCHANGED <<TwoFactor, eng, use_api, balance, transactions, moved>>

\* the UPDATE of a row sets the columns whose value differs from the loaded one
SetColumn(row, loaded, col, val) ==
    IF loaded[col] = val THEN row ELSE [row EXCEPT ![col] = val]

\* an approval whose commit persists the debit without the credit
ApproveCommit_debit_only(p) ==
    LET r == req[p]
        txn == Val(r.txn) IN
    /\ r.kind = "approve" /\ r.pc = "commit"
    /\ balance' = [balance EXCEPT ![r.user] = Val(r.s_bal) - txn.amount]
    /\ transactions' = [transactions EXCEPT ![r.txn_id] =
           SetColumn(SetColumn(SetColumn(@, txn, "status", "completed"),
                               txn, "completed_at", utcnow),
                     txn, "requires_review", FALSE)]
    /\ moved' = [moved EXCEPT ![r.txn_id] = @ + 1]
    /\ req' = [req EXCEPT ![p] = Finish(r, "approved")]
    /\ UNCHANGED <<TwoFactor, eng, use_api, admitted>>

\* UPDATE of both balances and of the transaction row
ApproveCommit(p) ==
    LET r == req[p]
        txn == Val(r.txn) IN
    /\ r.kind = "approve" /\ r.pc = "commit"
    /\ balance' = [balance EXCEPT
                     ![r.user] = Val(r.s_bal) - txn.amount,
                     ![txn.receiver_id] = Val(r.r_bal) + txn.amount]
    /\ transactions' = [transactions EXCEPT ![r.txn_id] =
           SetColumn(SetColumn(SetColumn(@, txn, "status", "completed"),
                               txn, "completed_at", utcnow),
                     txn, "requires_review", FALSE)]
    /\ moved' = [moved EXCEPT ![r.txn_id] = @ + 1]
    /\ req' = [req EXCEPT ![p] = Finish(r, "approved")]
    /\ UNCHANGED <<TwoFactor, eng, use_api, admitted>>

\* -------------------------------------------------------- cancel_transaction
\* the request arrives: @login_required loads current_user,
\* Transaction.query.get_or_404 and sender check
CancelBegin(p, u, id) ==
    LET r == [Idle EXCEPT !.kind = "cancel", !.user = u, !.txn_id = id,
                          !.s_bal = Some(balance[u])] IN
    /\ Free(p)
    /\ req' = Arrive(p,
         IF id \notin DOMAIN transactions THEN Finish(r, "404")
         ELSE LET txn == transactions[id] IN
              IF CancelUnauthorized(txn, u) THEN Finish(r, "unauthorized")
              ELSE [r EXCEPT !.txn = Some(txn), !.amount = txn.amount,
                             !.pc = "commit"])
    /\ admitted' = admitted + 1
    /\ UNCHANGED <<TwoFactor, eng, use_api, balance, transactions, moved>>

\* a cancellation that leaves the review mark
CancelCommit_keeps_review(p) ==
    LET r == req[p]
        txn == Val(r.txn) IN
    /\ r.kind = "cancel" /\ r.pc = "commit"
    /\ transactions' = [transactions EXCEPT ![r.txn_id] =
           SetColumn(@, txn, "status", "cancelled")]
    /\ req' = [req EXCEPT ![p] = Finish(r, "cancelled")]
    /\ UNCHANGED <<TwoFactor, eng, use_api, balance, moved, admitted>>

\* UPDATE of the transaction row
CancelCommit(p) ==
    LET r == req[p]
        txn == Val(r.txn) IN
    /\ r.kind = "cancel" /\ r.pc = "commit"
    /\ transactions' = [transactions EXCEPT ![r.txn_id] =
           SetColumn(SetColumn(@, txn, "status", "cancelled"),
                     txn, "requires_review", FALSE)]
    /\ req' = [req EXCEPT ![p] = Finish(r, "cancelled")]
    /\ UNCHANGED <<TwoFactor, eng, use_api, balance, moved, admitted>>

Next ==
    \/ \E p \in Slots, u \in Users, rcpt \in Usernames, amt \in Amounts,
          face \in BOOLEAN : SendBegin(p, u, rcpt, amt, face)
    \/ \E p \in Slots, response \in Responses : SendAnalyze(p, response)
    \/ \E p \in Slots : SendFlag(p)
    \/ \E p \in Slots : SendTransfer(p)
    \/ \E p \in Slots, u \in Users, id \in TxnIds : ApproveBegin(p, u, id)
    \/ \E p \in Slots : ApproveCommit(p)
    \/ \E p \in Slots, u \in Users, id \in TxnIds : CancelBegin(p, u, id)
    \/ \E p \in Slots : CancelCommit(p)

Spec == Init /\ [][Next]_vars

\* ------------------------------------------------- three registered accounts
\* the accounts after a third registration
Accounts == Users \cup {"carol"}

InitThree ==
    /\ totp_secret = [u \in Users |-> None]
    /\ two_fa_enabled = [u \in Users |-> FALSE]
    /\ tfa = [p \in Slots |-> TfaIdle]
    /\ totp = NoVerify
    /\ login = NoLogin
    /\ session = {}
    /\ last_login = [u \in Users |-> None]
    /\ eng = NoCall
    /\ use_api \in BOOLEAN
    /\ balance = [u \in Accounts |-> INITIAL_BALANCE]
    /\ transactions = <<>>
    /\ moved = <<>>
    /\ req = [p \in Slots |-> Idle]
    /\ admitted = 0

\* requests admitted when three accounts are registered
MaxAccountRequests == 2

NextThree ==
    \/ \E p \in Slots, u \in Accounts, rcpt \in Accounts \cup {"nobody"},
          amt \in Amounts, face \in BOOLEAN :
          admitted < MaxAccountRequests /\ SendBegin(p, u, rcpt, amt, face)
    \/ \E p \in Slots, response \in Responses : SendAnalyze(p, response)
    \/ \E p \in Slots : SendFlag(p)
    \/ \E p \in Slots : SendTransfer(p)
    \/ \E p \in Slots, u \in Accounts, id \in TxnIds :
          admitted < MaxAccountRequests /\ ApproveBegin(p, u, id)
    \/ \E p \in Slots : ApproveCommit(p)
    \/ \E p \in Slots, u \in Accounts, id \in TxnIds :
          admitted < MaxAccountRequests /\ CancelBegin(p, u, id)
    \/ \E p \in Slots : CancelCommit(p)

SpecThree == InitThree /\ [][NextThree]_vars

\* transfer requests admitted when transfers run alone
MaxTransfers == 2

\* transfers alone
SendNext ==
    \/ \E p \in Slots, u \in Users, rcpt \in Usernames, amt \in Amounts,
          face \in BOOLEAN :
          admitted < MaxTransfers /\ SendBegin(p, u, rcpt, amt, face)
    \/ \E p \in Slots, response \in Responses : SendAnalyze(p, response)
    \/ \E p \in Slots : SendFlag(p)
    \/ \E p \in Slots : SendTransfer(p)

\* a transfer that has a step to take takes it: each request runs in a thread
\* of its own, no handler takes a lock or waits for another, and the call of
\* the collaborator returns
Continue(p) ==
    \/ \E response \in Responses : SendAnalyze(p, response)
    \/ SendFlag(p)
    \/ SendTransfer(p)

SpecFair == Init /\ [][SendNext]_vars /\ \A p \in Slots : WF_vars(Continue(p))

\* ------------------------------------------------- calls of the engine
\* one call of a method of fraud_service, with the text it is given and what
\* the collaborator does
Workflow == <<balance, transactions, moved, req, admitted>>

\* the record of a call, after the calls recorded so far
Call(op, content, response, result, by_fallback) ==
    [NoCall EXCEPT !.op = op, !.content = content, !.response = response,
                   !.result = Some(result),
                   !.first = IF eng.first = None /\ by_fallback
                             THEN Some([op |-> op, content |-> content,
                                        result |-> result])
                             ELSE eng.first,
                   !.later = IF eng.first = None THEN 0
                             ELSE Min(eng.later + 1, 2)]

AnalyzeEmail(content, response) ==
    /\ eng' = Call("email", content, response,
                   analyze_email(use_api, content, response),
                   ~use_api \/ response.kind = "raise")
    /\ UNCHANGED <<use_api, Workflow, TwoFactor>>

AnalyzeSms(content, response) ==
    /\ eng' = Call("sms", content, response,
                   analyze_sms(use_api, content, response),
                   ~use_api \/ response.kind = "raise")
    /\ UNCHANGED <<use_api, Workflow, TwoFactor>>

AnalyzePhone(content, response) ==
    /\ eng' = Call("phone", content, response,
                   analyze_phone(use_api, content, response), FALSE)
    /\ UNCHANGED <<use_api, Workflow, TwoFactor>>

\* send_money's call for a transfer with the given description: the score is
\* copied to transaction.fraud_score and the flag decision is taken
AnalyzeTransaction(description, response) ==
    LET fraud_result == analyze_transaction(use_api, response) IN
    /\ eng' = [Call("transaction", description, response, fraud_result, FALSE)
                 EXCEPT !.fraud_score = Some(fraud_result.score),
                        !.flagged = ShouldFlag(fraud_result)]
    /\ UNCHANGED <<use_api, Workflow, TwoFactor>>

EngineNext ==
    \/ \E content \in Contents, response \in EngineResponses :
          AnalyzeEmail(content, response)
    \/ \E content \in Contents, response \in EngineResponses :
          AnalyzeSms(content, response)
    \/ \E content \in Contents, response \in EngineResponses :
          AnalyzePhone(content, response)
    \/ \E description \in Contents, response \in EngineResponses :
          AnalyzeTransaction(description, response)

SpecEngine == Init /\ [][EngineNext]_vars

\* ------------------------------------------------------------- verify_totp
\* one call of User.verify_totp at checked_at, for an account whose secret
\* column is secret, with the code that an authenticator holding key showed
\* at generated_at
VerifyTotp(secret, key, generated_at, checked_at) ==
    /\ totp' = [op |-> "verify", secret |-> secret, key |-> key,
                generated_at |-> generated_at, checked_at |-> checked_at,
                result |-> verify_totp(secret, TotpAt(key, generated_at, 0),
                                       checked_at)]
    /\ UNCHANGED <<use_api, Workflow, eng, totp_secret, two_fa_enabled, tfa,
                   Logins>>

TotpNext ==
    \E secret \in {None} \cup {Some(k) : k \in Secrets}, key \in Secrets,
       generated_at \in Times, checked_at \in Times :
        VerifyTotp(secret, key, generated_at, checked_at)

SpecTotp == Init /\ [][TotpNext]_vars

\* --------------------------------------------------------------- setup_2fa
TfaInFlight(p) == tfa[p].pc \in {"generate", "verify"}

\* codes a client may submit: the code of a secret at a step, or a wrong one
Tokens == {TotpAt(k, t, 0) : k \in Secrets, t \in {60}} \cup {WrongCode}

\* instants at which a submitted code is checked
CheckTimes == {30, 60, 90, 120}

\* the request arrives: @login_required loads current_user; a request without
\* a valid form (GET, or a code that is not 6 characters) carries no token
SetupBegin(p, u, token) ==
    LET r == [TfaIdle EXCEPT !.user = u, !.token = token,
                             !.secret = totp_secret[u]] IN
    /\ admitted < MaxRequests
    /\ ~TfaInFlight(p)
    /\ tfa' = [tfa EXCEPT ![p] =
         IF two_fa_enabled[u]
         THEN [r EXCEPT !.pc = "done", !.outcome = "already_enabled"]
         ELSE IF totp_secret[u] = None THEN [r EXCEPT !.pc = "generate"]
         ELSE IF token = None THEN [r EXCEPT !.pc = "done", !.outcome = "page"]
         ELSE [r EXCEPT !.pc = "verify"]]
    /\ admitted' = admitted + 1
    /\ UNCHANGED <<use_api, balance, transactions, moved, req, eng,
                   totp_secret, two_fa_enabled, totp, Logins>>

\* current_user.generate_totp_secret(); db.session.commit(): the commit
\* expires the session's copy of the row
SetupGenerate(p, secret) ==
    LET r == tfa[p] IN
    /\ r.pc = "generate"
    /\ totp_secret' = [totp_secret EXCEPT ![r.user] = Some(secret)]
    /\ tfa' = [tfa EXCEPT ![p] =
         IF r.token = None
         THEN [r EXCEPT !.pc = "done", !.outcome = "page",
                        !.secret = Some(secret)]
         ELSE [r EXCEPT !.pc = "verify", !.expired = TRUE]]
    /\ UNCHANGED <<use_api, Workflow, eng, two_fa_enabled, totp, Logins>>

\* current_user.verify_totp(token) on the session's copy of the row (loaded
\* again if a commit expired it); on success two_fa_enabled = True, commit
SetupVerify(p, now) ==
    LET r == tfa[p]
        secret == IF r.expired THEN totp_secret[r.user] ELSE r.secret IN
    /\ r.pc = "verify"
    /\ IF verify_totp(secret, Val(r.token), now)
       THEN /\ two_fa_enabled' = [two_fa_enabled EXCEPT ![r.user] = TRUE]
            /\ tfa' = [tfa EXCEPT ![p] =
                         [r EXCEPT !.pc = "done", !.secret = secret,
                                   !.checked_at = now, !.outcome = "enabled"]]
       ELSE /\ two_fa_enabled' = two_fa_enabled
            /\ tfa' = [tfa EXCEPT ![p] =
                         [r EXCEPT !.pc = "done", !.secret = secret,
                                   !.checked_at = now,
                                   !.outcome = "invalid_code"]]
    /\ UNCHANGED <<use_api, Workflow, eng, totp_secret, totp, Logins>>

TwoFaNext ==
    \/ \E p \in Slots, u \in Users, token \in {None} \cup {Some(t) : t \in Tokens} :
          SetupBegin(p, u, token)
    \/ \E p \in Slots, secret \in Secrets : SetupGenerate(p, secret)
    \/ \E p \in Slots, now \in CheckTimes : SetupVerify(p, now)

SpecTwoFa == Init /\ [][TwoFaNext]_vars

\* -------------------------------------------------------------------- login
\* the password an account was registered with; check_password compares the
\* hash of the submitted one with the stored hash (taken as injective)
PasswordOf(u) == "pw-" \o u
check_password(u, password) == password = PasswordOf(u)

\* passwords a client may submit
Passwords == {PasswordOf(u) : u \in Users}

\* instants at which a login is attempted
LoginTimes == {60, 120}

\* a login that skips the second factor
Login_without_code(u, password, token, now) ==
    LET outcome ==
            IF ~check_password(u, password) THEN "invalid" ELSE "welcome" IN
    /\ admitted < MaxRequests
    /\ admitted' = admitted + 1
    /\ login' = [op |-> "login", user |-> u, password |-> password,
                 token |-> token, now |-> now, outcome |-> outcome]
    /\ IF outcome = "welcome"
       THEN /\ session' = session \cup {u}
            /\ last_login' = [last_login EXCEPT ![u] = utcnow]
       ELSE UNCHANGED <<session, last_login>>
    /\ UNCHANGED <<use_api, balance, transactions, moved, req, eng,
                   totp_secret, two_fa_enabled, tfa, totp>>

\* POST /login of a client without a session, for the account u with a valid
\* form: the user row is queried once, the password and (when the row has
\* two_fa_enabled) the code are checked on it, then login_user, last_login
\* and commit
Login(u, password, token, now) ==
    LET outcome ==
            IF ~check_password(u, password) THEN "invalid"
            ELSE IF two_fa_enabled[u] /\ token = None THEN "need_code"
            ELSE IF two_fa_enabled[u]
                    /\ ~verify_totp(totp_secret[u], Val(token), now)
                 THEN "bad_code"
            ELSE "welcome" IN
    /\ admitted < MaxRequests
    /\ admitted' = admitted + 1
    /\ login' = [op |-> "login", user |-> u, password |-> password,
                 token |-> token, now |-> now, outcome |-> outcome]
    /\ IF outcome = "welcome"
       THEN /\ session' = session \cup {u}
            /\ last_login' = [last_login EXCEPT ![u] = utcnow]
       ELSE UNCHANGED <<session, last_login>>
    /\ UNCHANGED <<use_api, balance, transactions, moved, req, eng,
                   totp_secret, two_fa_enabled, tfa, totp>>

\* requests admitted when logins run next to enrollments
MaxLoginRequests == 2

LoginNext ==
    \/ \E p \in Slots, u \in Users, token \in {None} \cup {Some(t) : t \in Tokens} :
          admitted < MaxLoginRequests /\ SetupBegin(p, u, token)
    \/ \E p \in Slots, secret \in Secrets : SetupGenerate(p, secret)
    \/ \E p \in Slots, now \in CheckTimes : SetupVerify(p, now)
    \/ \E u \in Users, password \in Passwords,
          token \in {None} \cup {Some(t) : t \in Tokens}, now \in LoginTimes :
          admitted < MaxLoginRequests /\ Login(u, password, token, now)

SpecLogin == Init /\ [][LoginNext]_vars

\* ----------------------------------------------------------------- properties
\* the handler at which a request of the given kind arrives in this step
Arrives(p, kind) ==
    /\ admitted' = admitted + 1
    /\ ~InFlight(p)
    /\ req'[p].kind = kind

\* the row this step inserts, when it inserts one
Inserts == Len(transactions') = Len(transactions) + 1
Inserted == transactions'[Len(transactions')]

\* C1: two send_money requests of the same sender that run at the same time,
\* each for an amount within the balance they saw and together exceeding it
\* (neither flagged, neither failing validation): exactly one moves funds and
\* the other is rejected with insufficient funds.
C1_ExactlyOneSucceeds ==
    \A p, q \in Slots :
        ( /\ p # q
          /\ req[p].kind = "send" /\ req[q].kind = "send"
          /\ req[p].pc = "done" /\ req[q].pc = "done"
          /\ req[p].user = req[q].user
          /\ req[p].s_bal = req[q].s_bal
          /\ {req[p].outcome, req[q].outcome} \subseteq {"completed", "insufficient"}
          /\ req[p].amount <= Val(req[p].s_bal)
          /\ req[q].amount <= Val(req[p].s_bal)
          /\ req[p].amount + req[q].amount > Val(req[p].s_bal) )
        => {req[p].outcome, req[q].outcome} = {"completed", "insufficient"}

\* C2: every account's persisted balance is >= 0 in every reachable state.
C2_BalanceNonNegative == \A u \in Users : balance[u] >= 0

\* a transfer was rejected for insufficient funds after funds had moved
C2_Witness ==
    \E p \in Slots :
        /\ req[p].kind = "send" /\ req[p].outcome = "insufficient"
        /\ balance[req[p].user] < req[p].amount
        /\ \E i \in DOMAIN moved : moved[i] > 0

\* C3: the only status changes of a persisted transaction are
\* flagged -> completed and flagged -> cancelled.
C3_StatusMonotonic ==
    [][\A i \in DOMAIN transactions :
          transactions'[i].status # transactions[i].status
          => /\ transactions[i].status = "flagged"
             /\ transactions'[i].status \in {"completed", "cancelled"}]_vars

\* C4: the step that persists a flagged transaction changes no balance; while
\* a transaction is flagged its amount has not been moved; and the only step
\* that moves the amount of a transaction persisted as flagged is the commit
\* of an Approve of that transaction.
C4_FlaggedMovesNothing ==
    [][ /\ (Inserts /\ Inserted.status = "flagged") => balance' = balance
        /\ \A i \in DOMAIN transactions :
              /\ transactions[i].status = "flagged" => moved[i] = 0
              /\ (transactions[i].status = "flagged" /\ balance' # balance)
                 => \/ Inserts /\ Inserted.status = "completed"
                    \/ \E p \in Slots :
                          /\ req[p].kind = "approve" /\ req[p].pc = "commit"
                          /\ req'[p].outcome = "approved"
              /\ moved'[i] # moved[i]
                 => \E p \in Slots :
                       /\ req[p].kind = "approve" /\ req[p].pc = "commit"
                       /\ req[p].txn_id = i
                       /\ req'[p].outcome = "approved" ]_vars

\* a transfer was flagged and no balance has changed
C4_Witness ==
    \E p \in Slots :
        /\ req[p].kind = "send" /\ req[p].outcome = "flagged"
        /\ transactions[req[p].txn_id].status = "flagged"
        /\ transactions[req[p].txn_id].requires_review
        /\ moved[req[p].txn_id] = 0
        /\ \A u \in Users : balance[u] = INITIAL_BALANCE

\* C5: an analyzed transfer is persisted as flagged, with requires_review and
\* the verdict's score and reason, if and only if the verdict has is_fraud or
\* score > 0.7; otherwise (score exactly 0.7 without is_fraud included) the
\* funds are moved and it is persisted as completed.
C5_FlagIffVerdict ==
    [][\A p \in Slots :
          ( /\ req[p].kind = "send" /\ InFlight(p)
            /\ req[p].fraud_result # None
            /\ req'[p] # req[p] )
          => LET v == Val(req[p].fraud_result) IN
             /\ req'[p].pc = "done"
             /\ Inserts
             /\ Inserted.fraud_score = Some(v.score)
             /\ Inserted.fraud_reason = Some(v.reason)
             /\ IF v.is_fraud \/ v.score > 70
                THEN /\ Inserted.status = "flagged"
                     /\ Inserted.requires_review
                     /\ req'[p].outcome = "flagged"
                     /\ moved'[Len(moved')] = 0
                ELSE /\ Inserted.status = "completed"
                     /\ ~Inserted.requires_review
                     /\ req'[p].outcome = "completed"
                     /\ moved'[Len(moved')] = 1 ]_vars

\* a verdict of exactly 0.7 without is_fraud was analyzed and completed
C5_Witness ==
    \E p \in Slots :
        /\ req[p].kind = "send" /\ req[p].outcome = "completed"
        /\ req[p].fraud_result # None
        /\ Val(req[p].fraud_result).score = 70
        /\ ~Val(req[p].fraud_result).is_fraud
        /\ transactions[req[p].txn_id].fraud_score = Some(70)

\* C6: a transfer request that passed validation and the sufficiency check
\* invokes the analysis engine exactly when amount > 0.3 x the sender's
\* balance; a request that was rejected never invokes it.
C6_AnalysisIffLarge ==
    \A p \in Slots :
        req[p].kind = "send" =>
            LET analysed == req[p].pc \in {"analyze", "flag"}
                            \/ req[p].fraud_result # None IN
            IF req[p].outcome \in {"invalid", "not_found", "self_transfer",
                                   "insufficient"}
            THEN ~analysed
            ELSE analysed <=> req[p].amount * 10 > Val(req[p].s_bal) * 3

\* a transfer of exactly 0.3 x balance completed without analysis
C6_Witness ==
    \E p \in Slots :
        /\ req[p].kind = "send" /\ req[p].outcome = "completed"
        /\ req[p].fraud_result = None
        /\ req[p].amount * 10 = Val(req[p].s_bal) * 3

\* C7: the step in which a transfer request succeeds decreases the sender's
\* balance by exactly amount, increases the receiver's by exactly amount,
\* leaves their sum unchanged, and persists one completed transaction with a
\* completion timestamp.
C7_TransferExact ==
    [][\A p \in Slots :
          ( /\ req[p].kind = "send" /\ InFlight(p)
            /\ req'[p].outcome = "completed" )
          => /\ Inserts
             /\ Inserted.status = "completed"
             /\ Inserted.completed_at # None
             /\ Inserted.sender_id = req[p].user
             /\ Inserted.amount = req[p].amount
             /\ balance'[Inserted.sender_id]
                  = balance[Inserted.sender_id] - Inserted.amount
             /\ balance'[Inserted.receiver_id]
                  = balance[Inserted.receiver_id] + Inserted.amount
             /\ balance'[Inserted.sender_id] + balance'[Inserted.receiver_id]
                  = balance[Inserted.sender_id] + balance[Inserted.receiver_id]
       ]_vars

\* C8: an Approve commit makes the status completed; an Approve by the sender
\* that arrives after an Approve of the same transaction has completed it is
\* rejected because the status is no longer flagged, and changes no balance
\* and no transaction field: the amount stays moved exactly once.
C8_SecondApproveRejected ==
    [][\A p \in Slots :
          /\ ( /\ req[p].kind = "approve" /\ req[p].pc = "commit"
               /\ req'[p] # req[p] )
             => /\ transactions'[req[p].txn_id].status = "completed"
                /\ moved'[req[p].txn_id] = moved[req[p].txn_id] + 1
                /\ req'[p].outcome = "approved"
          /\ ( /\ Arrives(p, "approve")
               /\ req'[p].txn_id \in DOMAIN transactions
               /\ transactions[req'[p].txn_id].sender_id = req'[p].user
               /\ transactions[req'[p].txn_id].status = "completed"
               /\ moved[req'[p].txn_id] = 1 )
             => /\ req'[p].pc = "done"
                /\ req'[p].outcome = "not_flagged"
                /\ balance' = balance
                /\ transactions' = transactions
                /\ moved'[req'[p].txn_id] = 1 ]_vars

\* the sender's second Approve of an approved transaction was rejected
C8_Witness ==
    \E p \in Slots :
        /\ req[p].kind = "approve" /\ req[p].outcome = "not_flagged"
        /\ req[p].txn_id \in DOMAIN transactions
        /\ LET t == transactions[req[p].txn_id] IN
              /\ t.sender_id = req[p].user
              /\ t.status = "completed" /\ ~t.requires_review
              /\ t.fraud_score = Some(71)
              /\ moved[req[p].txn_id] = 1
              /\ balance[t.sender_id] = INITIAL_BALANCE - t.amount
              /\ balance[t.receiver_id] = INITIAL_BALANCE + t.amount

\* C9: an Approve of a transaction that is not flagged, or by an account
\* other than its sender, is rejected and leaves every balance and every
\* transaction field unchanged; only the sender's Approve of a transaction
\* it loaded as flagged ever reaches the commit.
C9_ApproveRejected ==
    [][\A p \in Slots :
          /\ ( /\ Arrives(p, "approve")
               /\ req'[p].txn_id \in DOMAIN transactions
               /\ \/ transactions[req'[p].txn_id].status # "flagged"
                  \/ transactions[req'[p].txn_id].sender_id # req'[p].user )
             => /\ req'[p].pc = "done"
                /\ req'[p].outcome \in {"unauthorized", "not_flagged"}
                /\ balance' = balance
                /\ transactions' = transactions
                /\ moved' = moved
          /\ (req'[p].kind = "approve" /\ req'[p].pc = "commit")
             => /\ Val(req'[p].txn).status = "flagged"
                /\ Val(req'[p].txn).sender_id = req'[p].user ]_vars

\* an Approve by an account other than the sender of a flagged transaction
\* was rejected
C9_Witness ==
    \E p \in Slots :
        /\ req[p].kind = "approve" /\ req[p].outcome = "unauthorized"
        /\ transactions[req[p].txn_id].status = "flagged"
        /\ transactions[req[p].txn_id].sender_id # req[p].user

\* C10: a Cancel by an account other than the transaction's sender is
\* rejected and leaves the status, requires_review and every balance
\* unchanged; only the sender's Cancel ever reaches the commit.
C10_CancelUnauthorized ==
    [][\A p \in Slots :
          /\ ( /\ Arrives(p, "cancel")
               /\ req'[p].txn_id \in DOMAIN transactions
               /\ transactions[req'[p].txn_id].sender_id # req'[p].user )
             => /\ req'[p].pc = "done"
                /\ req'[p].outcome = "unauthorized"
                /\ balance' = balance
                /\ transactions' = transactions
          /\ (req'[p].kind = "cancel" /\ req'[p].pc = "commit")
             => Val(req'[p].txn).sender_id = req'[p].user ]_vars

\* a Cancel by an account other than the sender of a flagged transaction was
\* rejected
C10_Witness ==
    \E p \in Slots :
        /\ req[p].kind = "cancel" /\ req[p].outcome = "unauthorized"
        /\ transactions[req[p].txn_id].status = "flagged"
        /\ transactions[req[p].txn_id].requires_review
        /\ transactions[req[p].txn_id].sender_id # req[p].user

\* C11: the commit of the sender's Approve of a flagged transaction, admitted
\* because the sender's balance at approve time covered the amount, decreases
\* the sender's balance by exactly the amount, increases the receiver's by
\* exactly the amount, and leaves the transaction completed, with a completion
\* timestamp and without requires_review.
C11_ApproveExact ==
    [][\A p \in Slots :
          ( /\ req[p].kind = "approve" /\ req[p].pc = "commit"
            /\ req'[p].outcome = "approved" )
          => LET t == transactions[req[p].txn_id]
                 t1 == transactions'[req[p].txn_id] IN
             /\ balance'[t.sender_id] = balance[t.sender_id] - t.amount
             /\ balance'[t.receiver_id] = balance[t.receiver_id] + t.amount
             /\ t1.status = "completed"
             /\ t1.completed_at # None
             /\ ~t1.requires_review ]_vars

\* C12: the sender's Cancel of a flagged transaction is admitted, and its
\* commit leaves the transaction cancelled without requires_review and
\* changes no balance.
C12_CancelFlagged ==
    [][\A p \in Slots :
          /\ ( /\ Arrives(p, "cancel")
               /\ req'[p].txn_id \in DOMAIN transactions
               /\ transactions[req'[p].txn_id].sender_id = req'[p].user
               /\ transactions[req'[p].txn_id].status = "flagged" )
             => /\ req'[p].pc = "commit"
                /\ balance' = balance
          /\ ( /\ req[p].kind = "cancel" /\ req[p].pc = "commit"
               /\ Val(req[p].txn).status = "flagged"
               /\ req'[p] # req[p] )
             => /\ req'[p].outcome = "cancelled"
                /\ transactions'[req[p].txn_id].status = "cancelled"
                /\ ~transactions'[req[p].txn_id].requires_review
                /\ balance' = balance
                /\ moved' = moved ]_vars

\* the sender cancelled a flagged transaction and no balance has changed
C12_Witness ==
    \E p \in Slots :
        /\ req[p].kind = "cancel" /\ req[p].outcome = "cancelled"
        /\ LET t == transactions[req[p].txn_id] IN
              /\ t.sender_id = req[p].user
              /\ t.status = "cancelled" /\ ~t.requires_review
              /\ t.fraud_score # None
              /\ moved[req[p].txn_id] = 0
        /\ \A u \in Users : balance[u] = INITIAL_BALANCE

\* C13: a transfer request whose amount exceeds the sender's balance is
\* rejected on arrival (for insufficient funds when nothing else is wrong with
\* it) without a call of the analysis engine, without a new transaction and
\* without a change of any balance.
C13_InsufficientRejected ==
    [][\A p \in Slots :
          ( /\ Arrives(p, "send")
            /\ req'[p].amount > balance[req'[p].user] )
          => /\ req'[p].pc = "done"
             /\ req'[p].outcome \in {"invalid", "not_found", "self_transfer",
                                     "insufficient"}
             /\ req'[p].fraud_result = None
             /\ transactions' = transactions
             /\ moved' = moved
             /\ balance' = balance
             /\ \A rcpt \in Users \ {req'[p].user} :
                   SendBegin(p, req'[p].user, rcpt, req'[p].amount, TRUE)
                   => req'[p].outcome = "insufficient" ]_vars

\* a valid transfer to a known other account was rejected for insufficient
\* funds without analysis
C13_Witness ==
    \E p \in Slots :
        /\ req[p].kind = "send" /\ req[p].pc = "done"
        /\ req[p].outcome = "insufficient"
        /\ req[p].fraud_result = None
        /\ req[p].amount > Val(req[p].s_bal)
        /\ balance[req[p].user] = Val(req[p].s_bal)
        /\ \A i \in DOMAIN transactions :
              transactions[i].sender_id = req[p].user
              => transactions[i].status = "completed"

\* C14: the sender's Approve of a flagged transaction whose amount exceeds the
\* sender's balance at approve time is rejected for insufficient funds; the
\* transaction stays flagged with requires_review and no balance changes.
C14_ApproveInsufficient ==
    [][\A p \in Slots :
          ( /\ Arrives(p, "approve")
            /\ req'[p].txn_id \in DOMAIN transactions
            /\ transactions[req'[p].txn_id].sender_id = req'[p].user
            /\ transactions[req'[p].txn_id].status = "flagged"
            /\ transactions[req'[p].txn_id].amount > balance[req'[p].user] )
          => /\ req'[p].pc = "done"
             /\ req'[p].outcome = "insufficient"
             /\ balance' = balance
             /\ moved' = moved
             /\ transactions' = transactions
             /\ transactions'[req'[p].txn_id].status = "flagged"
             /\ transactions'[req'[p].txn_id].requires_review ]_vars

\* the sender's Approve was rejected for insufficient funds and the
\* transaction is still flagged
C14_Witness ==
    \E p \in Slots :
        /\ req[p].kind = "approve" /\ req[p].outcome = "insufficient"
        /\ LET t == transactions[req[p].txn_id] IN
              /\ t.sender_id = req[p].user
              /\ t.status = "flagged" /\ t.requires_review
              /\ t.amount > balance[req[p].user]
              /\ moved[req[p].txn_id] = 0

\* C15: a transfer request to the sender itself, to an unknown recipient or of
\* a non-positive amount is rejected on arrival without a call of the analysis
\* engine, without a new transaction and without a change of any balance.
C15_ValidationRejected ==
    [][\A p \in Slots :
          Arrives(p, "send")
          => \A rcpt \in Usernames, face \in BOOLEAN :
                ( /\ \/ rcpt = req'[p].user
                     \/ rcpt \notin Users
                     \/ req'[p].amount <= 0
                  /\ SendBegin(p, req'[p].user, rcpt, req'[p].amount, face) )
                => /\ req'[p].pc = "done"
                   /\ req'[p].outcome \in {"invalid", "not_found", "self_transfer"}
                   /\ req'[p].fraud_result = None
                   /\ transactions' = transactions
                   /\ moved' = moved
                   /\ balance' = balance ]_vars

\* a self-transfer of a positive amount was rejected after a transfer had
\* been recorded
C15_Witness ==
    \E p \in Slots :
        /\ req[p].kind = "send" /\ req[p].pc = "done"
        /\ req[p].outcome = "self_transfer"
        /\ req[p].fraud_result = None
        /\ req[p].amount > 0
        /\ balance[req[p].user] = Val(req[p].s_bal)
        /\ Len(transactions) = 1 /\ moved[1] = 1

\* ------------------------------------------------- properties of the engine
\* the call went without the collaborator: unconfigured, or the call raised
Unavailable == ~use_api \/ eng.response.kind = "raise"

\* the response held no JSON object, or a malformed one
ParseFailure == use_api /\ eng.response.kind \in {"nojson", "badjson"}

SameVerdict(v, f) == DOMAIN v = DOMAIN f /\ \A k \in DOMAIN f : v[k] = f[k]

\* C16: when the AI-backed path of analyze_transaction is unconfigured or its
\* call raises, the verdict returned has the is_fraud and score of the
\* rule-based classifier for that transaction's text, and the flag decision
\* of the transfer is the one that verdict gives.
C16_TransactionFallback ==
    (eng.op = "transaction" /\ Unavailable)
    => LET f == fallback_analysis(eng.content, "transaction")
           v == Val(eng.result) IN
       /\ v.is_fraud = f.is_fraud
       /\ v.score = f.score
       /\ eng.flagged = ShouldFlag(f)

\* C17: for email, sms and phone, when the AI-backed variant is unconfigured
\* or its call raises, the verdict returned is exactly the rule-based
\* fallback verdict for the content.
C17_TextFallback ==
    (eng.op \in {"email", "sms", "phone"} /\ Unavailable)
    => SameVerdict(Val(eng.result), fallback_analysis(eng.content, eng.op))

\* C18: when the collaborator's response holds no JSON object or a malformed
\* one, the verdict returned has the is_fraud, score and reason of the
\* rule-based classifier for the input, not a fixed not-fraud default.
C18_ParseFailureFallsBack ==
    (eng.op # "none" /\ ParseFailure)
    => LET f == fallback_analysis(eng.content, eng.op)
           v == Val(eng.result) IN
       /\ v.is_fraud = f.is_fraud
       /\ v.score = f.score
       /\ v.reason = f.reason

\* C19: every call of analyze_email, analyze_sms, analyze_phone and
\* analyze_transaction returns a verdict that carries is_fraud, score,
\* reason, patterns and severity, on every path.
C19_CompleteVerdict ==
    eng.op # "none"
    => /\ eng.result # None
       /\ {"is_fraud", "score", "reason", "patterns", "severity"}
             \subseteq DOMAIN Val(eng.result)

\* C20: the score of every verdict returned, and every fraud_score stored on
\* a transaction, lies in 0.0 .. 1.0.
C20_ScoreInRange ==
    eng.op # "none"
    => /\ Val(eng.result).score \in 0..100
       /\ eng.fraud_score # None => Val(eng.fraud_score) \in 0..100

\* the call was answered by the rule-based classifier
FallbackCall == eng.op \in {"email", "sms"} /\ Unavailable

\* the distinct keywords of the fixed set that occur in the content
MatchedKeywords(content) ==
    {kw \in {fraud_keywords[i] : i \in DOMAIN fraud_keywords} :
        IsSubstring(kw, Lower(content))}

\* C21: the rule-based classifier's score is min(0.15 x k, 0.95) for the k
\* distinct keywords of the fixed set that occur, case-insensitively, in the
\* input; is_fraud is score > 0.4; severity is high above 0.7, medium above
\* 0.4, low otherwise.
C21_FallbackScore ==
    FallbackCall
    => LET k == Cardinality(MatchedKeywords(eng.content))
           v == Val(eng.result) IN
       /\ v.score = Min(15 * k, 95)
       /\ v.is_fraud = (v.score > 40)
       /\ v.severity = IF v.score > 70 THEN "high"
                       ELSE IF v.score > 40 THEN "medium" ELSE "low"

\* position of the first occurrence of a keyword in the scan order
ScanIndex(kw) ==
    CHOOSE i \in DOMAIN fraud_keywords :
        /\ fraud_keywords[i] = kw
        /\ \A j \in 1..(i - 1) : fraud_keywords[j] # kw

\* C22: the rule-based classifier's indicator list holds the first min(5, k)
\* matched keywords in scan order: at most 5 entries, each a keyword that
\* occurs in the input, in scan order, none twice.
C22_IndicatorList ==
    FallbackCall
    => LET k == Cardinality(MatchedKeywords(eng.content))
           patterns == Val(eng.result).patterns IN
       /\ Len(patterns) = Min(5, k)
       /\ \A i \in DOMAIN patterns : patterns[i] \in MatchedKeywords(eng.content)
       /\ \A i, j \in DOMAIN patterns :
             i < j => /\ patterns[i] # patterns[j]
                      /\ ScanIndex(patterns[i]) < ScanIndex(patterns[j])

CommitsBoth(p) ==
    /\ InFlight(p)
    /\ req[p].kind \in {"send", "approve"}
    /\ req'[p].pc = "done"
    /\ LET t == transactions'[req'[p].txn_id] IN
          /\ t.status = "completed"
          /\ t.sender_id = req[p].user
          /\ balance'[t.sender_id] = Val(req[p].s_bal) - t.amount
          /\ balance'[t.receiver_id] = Val(req[p].r_bal) + t.amount
          /\ moved'[req'[p].txn_id] > 0

RECURSIVE NetOf(_, _)
NetOf(u, n) ==
    IF n = 0 THEN 0
    ELSE LET t == transactions[n] IN
         NetOf(u, n - 1)
           + (IF t.status = "completed" /\ t.receiver_id = u THEN t.amount ELSE 0)
           - (IF t.status = "completed" /\ t.sender_id = u THEN t.amount ELSE 0)

\* C25: concurrent transfers and approvals are linearized: when every request
\* has returned, the balances and the transactions are those of the same
\* requests executed one at a time in some order, so each balance is the
\* initial balance plus the completed transfers received minus those sent.
C25_Linearized ==
    (\A p \in Slots : ~InFlight(p))
    => \A u \in Users : balance[u] = INITIAL_BALANCE + NetOf(u, Len(transactions))

C27_TimeoutFallsBack ==
    (eng.op # "none" /\ use_api /\ eng.response.kind = "raise")
    => LET f == fallback_analysis(eng.content, eng.op)
           v == Val(eng.result) IN
       /\ v.is_fraud = f.is_fraud
       /\ v.score = f.score
       /\ eng.op = "transaction" => eng.flagged = ShouldFlag(f)

\* C28: verify_totp accepts the code generated for time T when it is checked
\* at T, at T + 30 s and at T - 30 s, rejects a code whose time step differs
\* from the current step by more than 1 (a code from T + 90 s among them),
\* and returns false for an account without a secret.
C28_TotpWindow ==
    totp.op = "verify"
    => /\ totp.secret = None => ~totp.result
       /\ ( /\ totp.secret = Some(totp.key)
            /\ totp.checked_at - totp.generated_at \in {0, Interval, -Interval} )
          => totp.result
       /\ ( \/ timecode(totp.generated_at) - timecode(totp.checked_at) > 1
            \/ timecode(totp.checked_at) - timecode(totp.generated_at) > 1 )
          => ~totp.result
       /\ totp.generated_at = totp.checked_at + 90 => ~totp.result

\* a code generated in the middle of a step was accepted 30 s later
C28_Witness ==
    /\ totp.op = "verify"
    /\ totp.secret = Some(totp.key)
    /\ totp.generated_at = 45
    /\ totp.checked_at = totp.generated_at + Interval
    /\ timecode(totp.checked_at) = timecode(totp.generated_at) + 1
    /\ totp.result

\* C29: two_fa_enabled becomes true only in a setup_2fa step whose submitted
\* code verifies against the secret stored for the account; two_fa_enabled
\* implies that totp_secret is set; a setup_2fa request with an invalid code
\* leaves two_fa_enabled false.
C29_EnabledOnlyByValidCode ==
    [][\A u \in Users :
          /\ (two_fa_enabled'[u] /\ ~two_fa_enabled[u])
             => \E p \in Slots :
                   /\ tfa[p].pc = "verify" /\ tfa[p].user = u
                   /\ tfa'[p].outcome = "enabled"
                   /\ totp_secret[u] # None
                   /\ verify_totp(totp_secret[u], Val(tfa[p].token),
                                  tfa'[p].checked_at)
          /\ two_fa_enabled'[u] => totp_secret'[u] # None
          /\ \A p \in Slots :
                ( /\ tfa[p].pc = "verify" /\ tfa[p].user = u
                  /\ tfa'[p].outcome = "invalid_code" )
                => two_fa_enabled'[u] = two_fa_enabled[u] ]_vars

\* C30: once an account's totp_secret is set, no request changes it.
C30_SecretSetOnce ==
    [][\A u \in Users :
          totp_secret[u] # None => totp_secret'[u] = totp_secret[u]]_vars

\* C32: every persisted transaction has a receiver other than its sender and
\* an amount above zero.
C32_DistinctPartiesPositiveAmount ==
    \A i \in DOMAIN transactions :
        /\ transactions[i].sender_id # transactions[i].receiver_id
        /\ transactions[i].amount > 0

\* rows written while rejected requests (a self-transfer, an amount of zero)
\* came in between
C32_Witness ==
    /\ Len(transactions) >= 1
    /\ transactions[1].amount = 3000
    /\ \E p \in Slots :
          /\ req[p].kind = "send"
          /\ req[p].outcome \in {"self_transfer", "invalid"}
          /\ req[p].amount \in {0, 6000}

\* C33: no transaction is persisted with status pending: every row of the
\* table is flagged, completed or cancelled.
C33_NeverPending ==
    \A i \in DOMAIN transactions :
        transactions[i].status \in {"flagged", "completed", "cancelled"}

\* a row inserted completed after an analysis and a row inserted flagged
C33_Witness ==
    \E i, j \in DOMAIN transactions :
        /\ transactions[i].status = "completed"
        /\ transactions[i].fraud_score # None
        /\ transactions[j].status = "flagged"

\* C36: two Approve requests of the sender for the same flagged transaction
\* that run at the same time: the amount leaves the sender once and reaches
\* the receiver once, and at most one of the two requests reports success.
C36_ConcurrentApproveOnce ==
    \A p, q \in Slots :
        ( /\ p # q
          /\ req[p].kind = "approve" /\ req[q].kind = "approve"
          /\ req[p].pc = "done" /\ req[q].pc = "done"
          /\ req[p].txn_id = req[q].txn_id
          /\ req[p].user = req[q].user
          /\ req[p].outcome = "approved" )
        => /\ req[q].outcome # "approved"
           /\ moved[req[p].txn_id] = 1

\* C37: over the lifetime of every transaction its funds are moved at most
\* once, they have been moved exactly when its status is completed, and a
\* cancelled transaction has moved none.
C37_MovedIffCompleted ==
    \A i \in DOMAIN transactions :
        /\ moved[i] <= 1
        /\ (moved[i] >= 1) <=> (transactions[i].status = "completed")
        /\ transactions[i].status = "cancelled" => moved[i] = 0

\* C38: an Approve and a Cancel of the sender that race on the same flagged
\* transaction: exactly one of them takes effect, and the transaction ends
\* completed with its amount moved once or cancelled with no balance changed.
C38_ApproveCancelRace ==
    \A p, q \in Slots :
        ( /\ req[p].kind = "approve" /\ req[q].kind = "cancel"
          /\ req[p].pc = "done" /\ req[q].pc = "done"
          /\ req[p].txn_id = req[q].txn_id
          /\ req[p].txn_id \in DOMAIN transactions
          /\ req[p].user = transactions[req[p].txn_id].sender_id
          /\ req[q].user = req[p].user
          /\ {req[p].outcome, req[q].outcome} \cap {"approved", "cancelled"} # {} )
        => LET i == req[p].txn_id IN
           /\ ~(req[p].outcome = "approved" /\ req[q].outcome = "cancelled")
           /\ \/ transactions[i].status = "completed" /\ moved[i] = 1
              \/ transactions[i].status = "cancelled" /\ moved[i] = 0

\* C39: a persisted transaction has requires_review set exactly when its
\* status is flagged.
C39_ReviewIffFlagged ==
    \A i \in DOMAIN transactions :
        transactions[i].requires_review <=> (transactions[i].status = "flagged")

\* a row under review next to rows an Approve and a Cancel took out of it
C39_Witness ==
    /\ Len(transactions) >= 2
    /\ transactions[1].status = "flagged" /\ transactions[1].requires_review
    /\ transactions[2].status = "cancelled" /\ ~transactions[2].requires_review
    /\ transactions[2].fraud_score # None

\* the sum of the balances of the accounts in S
RECURSIVE TotalBalance(_)
TotalBalance(S) ==
    IF S = {} THEN 0
    ELSE LET u == CHOOSE x \in S : TRUE IN balance[u] + TotalBalance(S \ {u})

\* C35: the sum of all account balances is the same in every reachable state:
\* no interleaving of transfer, approve and cancel requests creates or
\* destroys money.
C35_MoneyConserved ==
    TotalBalance(DOMAIN balance) = Cardinality(DOMAIN balance) * INITIAL_BALANCE

\* C34: the parser takes the first balanced {...} span of the response: when
\* a JSON object is followed by further text that holds another "{" or "}",
\* the verdict is built from that first object and is neither a parse failure
\* nor built from a wider span.
C34_FirstObjectParsed ==
    ( /\ use_api
      /\ eng.op # "none"
      /\ eng.response.kind = "json"
      /\ \E i \in DOMAIN TrailingText(eng.response) :
            TrailingText(eng.response)[i] \in {"{", "}"} )
    => LET v == Val(eng.result)
           d == eng.response.data IN
       /\ v.is_fraud = Get(d, "is_fraud", FALSE)
       /\ v.score = Get(d, "confidence_score", 0)
       /\ v.reason = Get(d, "explanation", "No explanation provided")

\* C31: a login to an account that has two_fa_enabled, with the correct
\* password, establishes a session only if a code was submitted and verifies;
\* with a missing or invalid code the user is not logged in and last_login is
\* not written.
C31_SecondFactorGate ==
    [][ ( /\ login'.op = "login"
          /\ Login(login'.user, login'.password, login'.token, login'.now)
          /\ two_fa_enabled[login'.user]
          /\ check_password(login'.user, login'.password) )
        => LET u == login'.user
               verified ==
                   /\ login'.token # None
                   /\ verify_totp(totp_secret[u], Val(login'.token), login'.now) IN
           /\ (login'.outcome = "welcome" \/ session' # session) => verified
           /\ ~verified => /\ login'.outcome # "welcome"
                           /\ session' = session
                           /\ last_login' = last_login ]_vars

\* a login with a verifying code to an account that has the second factor
C31_Witness ==
    /\ login.op = "login"
    /\ two_fa_enabled[login.user]
    /\ login.outcome = "welcome"
    /\ login.token # None
    /\ login.user \in session
    /\ last_login[login.user] # None

====
